---- MODULE Spec2Model ----
(***************************************************************************)
(* Model of quickly (src/src/main.rs): an image proxy whose one handler,   *)
(* transform_image, extracts the path, parses the query, fetches the       *)
(* origin bytes and, when a resize was requested, decodes, resizes and     *)
(* re-encodes them.  One request is followed from arrival to response;     *)
(* the handler shares no mutable state with other requests (State holds    *)
(* only the upstream URI).                                                 *)
(*                                                                         *)
(* Bytes are modelled by what the handler can observe of them: whether     *)
(* they carry an image signature, whether they decode, the encoding, the   *)
(* pixel dimensions, and whether they are the origin's bytes or the        *)
(* output of the encoder.  Dimensions stay far below 2^32, so the u32      *)
(* products of resize_image never wrap here.                               *)
(***************************************************************************)
EXTENDS Integers, FiniteSets, Sequences, TLC

VARIABLES pc, req, query, fetches, upstream, resized, response

vars == <<pc, req, query, fetches, upstream, resized, response>>

\* Largest source dimension and largest requested dimension explored.
MaxSrc == 4
MaxReq == 5

-----------------------------------------------------------------------------
\* Option<u32>
None32 == [some |-> FALSE, v |-> 0]
Some32(n) == [some |-> TRUE, v |-> n]

Max(a, b) == IF a >= b THEN a ELSE b
Min(a, b) == IF a <= b THEN a ELSE b

(* f32/f64 round() of a / b: the nearest integer, halves away from zero    *)
(* (a, b >= 0).  Over the dimensions explored the floating-point products  *)
(* of the code round to the same integers as the exact fractions.          *)
RoundDiv(a, b) == (2 * a + b) \div (2 * b)

-----------------------------------------------------------------------------
\* Raw query-string values as they arrive in the URL.
Absent == [tag |-> "absent", n |-> 0]
Malformed == [tag |-> "bad", n |-> 0]
Num(n) == [tag |-> "num", n |-> n]

RawDims == {Absent, Malformed} \cup {Num(n) : n \in 0..MaxReq}
RawFits == {"<absent>", "bounds", "cover", "crop", "Cover"}
RawFormats == {"<absent>", "jpg", "jpeg", "webp", "png", "gif", "bmp"}

Requests == [path : BOOLEAN, width : RawDims, height : RawDims,
             fit : RawFits, format : RawFormats]

NoRequest == [path |-> FALSE, width |-> Absent, height |-> Absent,
              fit |-> "<none>", format |-> "<none>"]

\* Bytes.
NoBytes == [kind |-> "empty", fmt |-> "None", w |-> 0, h |-> 0, by |-> "none"]
OtherBytes == [kind |-> "other", fmt |-> "None", w |-> 0, h |-> 0, by |-> "origin"]
SrcFormats == {"Jpeg", "Png"}
OriginImages == [kind : {"image", "corrupt"}, fmt : SrcFormats,
                 w : 1..MaxSrc, h : 1..MaxSrc, by : {"origin"}]
OriginBodies == OriginImages \cup {OtherBytes}

(* What is known of the origin's answer: whether the transport failed,     *)
(* the status of the response head, and the body once it has been read.    *)
Statuses == {200, 404}
NoUpstream == [neterr |-> FALSE, status |-> 0, body |-> NoBytes]
NetworkError == [neterr |-> TRUE, status |-> 0, body |-> NoBytes]
\* surf::get(..).await: a transport error, or a response head of any status.
GetOutcomes == {NetworkError} \cup
               [neterr : {FALSE}, status : Statuses, body : {NoBytes}]
\* body_bytes().await: a read error, or the whole body.
ReadError == [ok |-> FALSE, bytes |-> NoBytes]
BodyOutcomes == {ReadError} \cup [ok : {TRUE}, bytes : OriginBodies]

-----------------------------------------------------------------------------
\* struct QueryParams, #[serde(default)]
QueryParamsDefault == [width |-> None32, height |-> None32,
                       fit |-> "None", format |-> "<absent>"]

\* TryFrom<&str> for FitType: exact, case-sensitive match.
FitTryFrom(value) ==
    CASE value = "bounds" -> [ok |-> TRUE, fit |-> "Bounds"]
      [] value = "cover"  -> [ok |-> TRUE, fit |-> "Cover"]
      [] value = "crop"   -> [ok |-> TRUE, fit |-> "Crop"]
      [] OTHER            -> [ok |-> FALSE, fit |-> "None"]

\* Deserialising one Option<u32> field.
ParseDim(raw) ==
    CASE raw.tag = "absent" -> [ok |-> TRUE, val |-> None32]
      [] raw.tag = "num"    -> [ok |-> TRUE, val |-> Some32(raw.n)]
      [] OTHER              -> [ok |-> FALSE, val |-> None32]

ParseFit(raw) ==
    IF raw = "<absent>" THEN [ok |-> TRUE, fit |-> "None"] ELSE FitTryFrom(raw)

\* req.query(): the whole deserialisation succeeds or fails.
ParseQuery(r) ==
    LET pw == ParseDim(r.width)
        ph == ParseDim(r.height)
        pf == ParseFit(r.fit)
    IN  IF pw.ok /\ ph.ok /\ pf.ok
        THEN [ok |-> TRUE,
              q |-> [width |-> pw.val, height |-> ph.val,
                     fit |-> pf.fit, format |-> r.format]]
        ELSE [ok |-> FALSE, q |-> QueryParamsDefault]

\* Mutant: only the offending field falls back, the valid ones are kept.
QueryOrDefault_PerField(r) ==
    LET pw == ParseDim(r.width)
        ph == ParseDim(r.height)
        pf == ParseFit(r.fit)
    IN  [width |-> pw.val, height |-> ph.val, fit |-> pf.fit,
         format |-> r.format]

\* let query = match req.query() { Ok(q) => q, _ => QueryParams::default() }
QueryOrDefault(r) ==
    LET p == ParseQuery(r) IN IF p.ok THEN p.q ELSE QueryParamsDefault

has_resize(q) == q.width.some \/ q.height.some \/ q.fit # "None"

check_format_specified(format) ==
    CASE format = "jpg"  -> "Jpeg"
      [] format = "jpeg" -> "Jpeg"
      [] format = "webp" -> "WebP"
      [] format = "png"  -> "Png"
      [] format = "gif"  -> "Gif"
      [] OTHER           -> "None"

-----------------------------------------------------------------------------
(* The image crate, as resize_image uses it.  resize_dimensions works in   *)
(* f64: ratio = max or min of nwidth/width and nheight/height, and each    *)
(* new dimension is max(round(dimension * ratio), 1).  The ratio is kept   *)
(* here as the exact fraction rn / rd.                                     *)
resize_dimensions(width, height, nwidth, nheight, fill) ==
    LET useW == IF fill THEN nwidth * height >= nheight * width
                        ELSE nwidth * height <= nheight * width
        rn == IF useW THEN nwidth ELSE nheight
        rd == IF useW THEN width ELSE height
    IN  [w |-> Max(RoundDiv(width * rn, rd), 1),
         h |-> Max(RoundDiv(height * rn, rd), 1)]

\* DynamicImage::resize_exact: the output has exactly the dimensions given.
resize_exact(sw, sh, nwidth, nheight) == [w |-> nwidth, h |-> nheight]

\* DynamicImage::resize: aspect ratio kept, scaled to fit within the box.
resize(sw, sh, nwidth, nheight) ==
    LET d == resize_dimensions(sw, sh, nwidth, nheight, FALSE)
    IN  resize_exact(sw, sh, d.w, d.h)

\* imageops::crop: the rectangle is clamped to the image.
crop(iw, ih, x, y, width, height) ==
    LET cx == Min(x, iw)
        cy == Min(y, ih)
    IN  [w |-> Min(width, iw - cx), h |-> Min(height, ih - cy)]

\* Mutant: the scaled image is returned without the crop.
resize_to_fill_NoCrop(sw, sh, nwidth, nheight) ==
    resize_dimensions(sw, sh, nwidth, nheight, TRUE)

\* DynamicImage::resize_to_fill: scale to cover the box, then crop the centre.
resize_to_fill(sw, sh, nwidth, nheight) ==
    LET d == resize_dimensions(sw, sh, nwidth, nheight, TRUE)
        i == resize_exact(sw, sh, d.w, d.h)
    IN  IF nwidth * i.h > i.w * nheight
        THEN crop(i.w, i.h, 0, (i.h - nheight) \div 2, nwidth, nheight)
        ELSE crop(i.w, i.h, (i.w - nwidth) \div 2, 0, nwidth, nheight)

-----------------------------------------------------------------------------
(* resize_image's match on (fit, width, height), then on (width, height).  *)
(* The result names the arm taken, the arguments handed to the image       *)
(* crate (arg_w, arg_h) and the dimensions of the resized image.           *)
Arm(name, aw, ah, d) ==
    [arm |-> name, arg_w |-> aw, arg_h |-> ah, w |-> d.w, h |-> d.h]

PlainResize(width, height, sw, sh) ==
    CASE ~width.some /\ ~height.some ->
            Arm("keep", sw, sh, [w |-> sw, h |-> sh])
      [] width.some /\ ~height.some ->
            LET w == width.v
                h == RoundDiv(w * sh, sw)
            IN  Arm("width_only", w, h, resize(sw, sh, w, h))
      [] ~width.some /\ height.some ->
            LET h == height.v
                w == (h \div sh) * sw
            IN  Arm("height_only", w, h, resize(sw, sh, w, h))
      [] OTHER ->
            Arm("exact", width.v, height.v,
                resize_exact(sw, sh, width.v, height.v))

CoverResize(width, height, sw, sh) ==
    IF width > height
    THEN LET w == (height \div sh) * width
         IN  Arm("cover", w, height, resize(sw, sh, w, height))
    ELSE LET h == (width \div sw) * height
         IN  Arm("cover", width, h, resize(sw, sh, width, h))

\* Mutant: a fit with one dimension uses that dimension for both sides.
ResizeMatch_FitWithOneDim(fit, width, height, sw, sh) ==
    LET wv == IF width.some THEN width.v ELSE height.v
        hv == IF height.some THEN height.v ELSE width.v
        any == width.some \/ height.some
    IN  CASE fit = "Crop" /\ any ->
                Arm("crop", wv, hv, resize_to_fill(sw, sh, wv, hv))
          [] fit = "Bounds" /\ any ->
                Arm("bounds", wv, hv, resize(sw, sh, wv, hv))
          [] fit = "Cover" /\ any -> CoverResize(wv, hv, sw, sh)
          [] OTHER -> PlainResize(width, height, sw, sh)

ResizeMatch(fit, width, height, sw, sh) ==
    CASE fit = "Crop" /\ width.some /\ height.some ->
            Arm("crop", width.v, height.v,
                resize_to_fill(sw, sh, width.v, height.v))
      [] fit = "Bounds" /\ width.some /\ height.some ->
            Arm("bounds", width.v, height.v,
                resize(sw, sh, width.v, height.v))
      [] fit = "Cover" /\ width.some /\ height.some ->
            CoverResize(width.v, height.v, sw, sh)
      [] OTHER -> PlainResize(width, height, sw, sh)

NoArm == [arm |-> "none", arg_w |-> 0, arg_h |-> 0, w |-> 0, h |-> 0]

\* What is recorded of a call of resize_image.
NotCalled == [called |-> FALSE, width |-> None32, height |-> None32,
              fit |-> "None", format |-> "None", decoded |-> FALSE,
              out |-> NoArm]

(* resize_image(buffer, width, height, fit, format); encodes tells whether *)
(* write_to succeeds for the resized pixels and the destination format.    *)
resize_image(buffer, width, height, fit, format, encodes) ==
    LET call == [called |-> TRUE, width |-> width, height |-> height,
                 fit |-> fit, format |-> format, decoded |-> FALSE,
                 out |-> NoArm]
    IN  IF buffer.kind # "image"
        THEN \* guess_format or load_from_memory fails
             [ok |-> FALSE, bytes |-> NoBytes, call |-> call]
        ELSE LET o == ResizeMatch(fit, width, height, buffer.w, buffer.h)
                 dst_format == IF format # "None" THEN format ELSE buffer.fmt
                 done == [call EXCEPT !.decoded = TRUE, !.out = o]
             IN  IF encodes
                 THEN [ok |-> TRUE,
                       bytes |-> [kind |-> "image", fmt |-> dst_format,
                                  w |-> o.w, h |-> o.h, by |-> "encoder"],
                       call |-> done]
                 ELSE [ok |-> FALSE, bytes |-> NoBytes, call |-> done]

-----------------------------------------------------------------------------
NoResponse == [status |-> 0, body |-> NoBytes, ctype |-> "none"]
Response(status) == [status |-> status, body |-> NoBytes, ctype |-> "none"]
OkResponse(buffer) ==
    [status |-> 200, body |-> buffer, ctype |-> "application/octet-stream"]

Init ==
    /\ pc = "idle"
    /\ req = NoRequest
    /\ query = QueryParamsDefault
    /\ fetches = 0
    /\ upstream = NoUpstream
    /\ resized = NotCalled
    /\ response = NoResponse

\* Mutant: the GET is issued before the path is checked.
TransformImageStart_FetchFirst ==
    /\ pc = "idle"
    /\ \E r \in Requests :
         /\ req' = r
         /\ fetches' = fetches + 1
         /\ IF ~r.path
            THEN /\ response' = Response(422)
                 /\ pc' = "done"
                 /\ UNCHANGED query
            ELSE /\ query' = QueryOrDefault(r)
                 /\ pc' = "fetching"
                 /\ UNCHANGED response
    /\ UNCHANGED <<upstream, resized>>

(* transform_image up to its first await: the path is extracted (422 and   *)
(* return when it is missing), the query is parsed with the fallback to    *)
(* the default, and the GET to {upstream}/{path} is issued.                *)
TransformImageStart ==
    /\ pc = "idle"
    /\ \E r \in Requests :
         /\ req' = r
         /\ IF ~r.path
            THEN /\ response' = Response(422)
                 /\ pc' = "done"
                 /\ UNCHANGED <<query, fetches>>
            ELSE /\ query' = QueryOrDefault(r)
                 /\ fetches' = fetches + 1
                 /\ pc' = "fetching"
                 /\ UNCHANGED response
    /\ UNCHANGED <<upstream, resized>>

\* The rest of the handler once the fetched buffer is in hand.
Finish(buffer, encodes) ==
    IF has_resize(query)
    THEN LET format == check_format_specified(query.format)
             r == resize_image(buffer, query.width, query.height, query.fit,
                               format, encodes)
         IN  /\ resized' = r.call
             /\ response' = IF r.ok THEN OkResponse(r.bytes) ELSE Response(500)
    ELSE /\ resized' = NotCalled
         /\ response' = OkResponse(buffer)

(* Second segment, resumed when surf::get(..).await completes.  surf       *)
(* reports an error only when the transport fails (the `?` turns it into   *)
(* a 500); a response head of any status is Ok, and body_bytes() is        *)
(* called on it, which suspends the handler again.                         *)
TransformImageResponse ==
    /\ pc = "fetching"
    /\ \E u \in GetOutcomes :
         /\ upstream' = u
         /\ IF u.neterr
            THEN /\ response' = Response(500)
                 /\ pc' = "done"
            ELSE /\ pc' = "reading"
                 /\ UNCHANGED response
    /\ UNCHANGED <<req, query, fetches, resized>>

(* Third segment, resumed when body_bytes().await completes: a read error  *)
(* is a 500, otherwise the rest of the handler runs on the buffer.         *)
TransformImageBody ==
    /\ pc = "reading"
    /\ \E b \in BodyOutcomes, encodes \in BOOLEAN :
         IF ~b.ok
         THEN /\ upstream' = [upstream EXCEPT !.neterr = TRUE]
              /\ response' = Response(500)
              /\ resized' = NotCalled
         ELSE /\ upstream' = [upstream EXCEPT !.body = b.bytes]
              /\ Finish(b.bytes, encodes)
    /\ pc' = "done"
    /\ UNCHANGED <<req, query, fetches>>

Next == TransformImageStart \/ TransformImageResponse \/ TransformImageBody

Spec == Init /\ [][Next]_vars

-----------------------------------------------------------------------------
\* Shorthands for the request in hand.
Decoded == resized.called /\ resized.decoded
BothSet == resized.width.some /\ resized.height.some
SrcW == upstream.body.w
SrcH == upstream.body.h

(* C1: a request without a path parameter is answered 422 and the GET to   *)
(* the origin is never issued for it, neither before nor after the 422.    *)
C1_MissingPathNoFetch ==
    /\ (pc # "idle" /\ ~req.path) =>
          (pc = "done" /\ response.status = 422 /\ fetches = 0)
    /\ response.status = 422 => (fetches = 0 /\ upstream = NoUpstream)

C1_Witness ==
    /\ pc = "done" /\ ~req.path /\ response.status = 422
    /\ req.width = Num(2) /\ req.fit = "crop"

(* C2: a 200 is returned only when the fetch had no network error and a    *)
(* success upstream status and, when a resize was requested, decode and    *)
(* encode both succeeded.                                                  *)
C2_OkOnlyOnSuccess ==
    response.status = 200 =>
        /\ ~upstream.neterr
        /\ upstream.status = 200
        /\ has_resize(query) => (Decoded /\ response.body.by = "encoder")

(* C3: a request with a supported format and no width, height or fit is    *)
(* answered with the source image re-encoded in that format, with the      *)
(* source's pixel dimensions.  Stated for a format other than the          *)
(* source's, where re-encoded bytes cannot be the origin's.                *)
C3_FormatOnlyReencodes ==
    ( /\ pc = "done" /\ req.path
      /\ req.width = Absent /\ req.height = Absent /\ req.fit = "<absent>"
      /\ check_format_specified(req.format) # "None"
      /\ check_format_specified(req.format) # upstream.body.fmt
      /\ ~upstream.neterr /\ upstream.status = 200
      /\ upstream.body.kind = "image"
      /\ response.status = 200 ) =>
        /\ response.body.by = "encoder"
        /\ response.body.fmt = check_format_specified(req.format)
        /\ response.body.w = SrcW /\ response.body.h = SrcH

(* C4: with fit=Crop and both dimensions set, the resized image has        *)
(* exactly the requested width and height, whatever the source size.       *)
C4_CropExact ==
    (Decoded /\ resized.fit = "Crop" /\ BothSet) =>
        /\ resized.out.w = resized.width.v
        /\ resized.out.h = resized.height.v
        /\ response.status = 200 =>
              /\ response.body.w = resized.width.v
              /\ response.body.h = resized.height.v

C4_Witness ==
    /\ Decoded /\ resized.fit = "Crop" /\ BothSet
    /\ SrcW = 3 /\ SrcH = 1
    /\ resized.width.v = 2 /\ resized.height.v = 4
    /\ response.status = 200

(* C5: with fit=Cover and both dimensions set, the output is that of the   *)
(* formula: width > height gives (height/sh) * width by height, otherwise  *)
(* width by (width/sw) * height.  The quotient is read in each of the      *)
(* three ways the sentence allows: integer division, the real product      *)
(* rounded, the real product truncated.  Stated for requests whose         *)
(* driving dimension is at least the source's, so that every reading       *)
(* gives a positive number of pixels.                                      *)
C5_CoverFormula ==
    (Decoded /\ resized.fit = "Cover" /\ BothSet /\ response.status = 200
        /\ resized.width.v >= 1 /\ resized.height.v >= 1
        /\ (IF resized.width.v > resized.height.v
            THEN resized.height.v >= SrcH ELSE resized.width.v >= SrcW)) =>
        LET w == resized.width.v
            h == resized.height.v
        IN  IF w > h
            THEN /\ resized.out.h = h
                 /\ resized.out.w \in {(h \div SrcH) * w, RoundDiv(h * w, SrcH),
                                       (h * w) \div SrcH}
            ELSE /\ resized.out.w = w
                 /\ resized.out.h \in {(w \div SrcW) * h, RoundDiv(w * h, SrcW),
                                       (w * h) \div SrcW}

(* C6: with only width set (no height, no fit) the output is exactly       *)
(* width wide and round(width / sw * sh) high.  Cases where that height    *)
(* is a positive number of pixels.                                         *)
C6_WidthOnlyExact ==
    (Decoded /\ resized.fit = "None" /\ resized.width.some
        /\ response.status = 200
        /\ ~resized.height.some /\ resized.width.v >= 1
        /\ RoundDiv(resized.width.v * SrcH, SrcW) >= 1) =>
        /\ resized.out.w = resized.width.v
        /\ resized.out.h = RoundDiv(resized.width.v * SrcH, SrcW)

(* C7: with only height set (no width, no fit) the target width is         *)
(* round((height / sh) * sw), the scale being a real number rounded only   *)
(* at the end, and the output height is the requested height.  Read on    *)
(* the output: it is what the resize to that target width produces.        *)
C7_HeightOnlyRounded ==
    (Decoded /\ resized.fit = "None" /\ ~resized.width.some
        /\ response.status = 200
        /\ resized.height.some /\ resized.height.v >= 1) =>
        LET w == RoundDiv(resized.height.v * SrcW, SrcH)
        IN  /\ resized.out.w = resize(SrcW, SrcH, w, resized.height.v).w
            /\ resized.out.h = resized.height.v

(* C8: when the query does not parse (a malformed width or height, or a    *)
(* fit other than bounds, cover, crop) the request is not rejected: every  *)
(* field is unset, valid ones included, the origin is fetched, no          *)
(* transform runs, and the fetched bytes come back unchanged with 200.     *)
QueryFails ==
    \/ req.width = Malformed
    \/ req.height = Malformed
    \/ req.fit \notin {"<absent>", "bounds", "cover", "crop"}

C8_ParseFailureFallsBack ==
    (pc # "idle" /\ req.path /\ QueryFails) =>
        /\ query.width = None32 /\ query.height = None32
        /\ query.fit = "None" /\ query.format = "<absent>"
        /\ ~has_resize(query)
        /\ fetches = 1
        /\ ~resized.called
        /\ (pc = "done" /\ ~upstream.neterr) =>
              /\ response.status = 200
              /\ response.body = upstream.body
        /\ pc = "done" => response.status \in {200, 500}

C8_Witness ==
    /\ pc = "done" /\ req.path
    /\ req.width = Num(2) /\ req.height = Absent /\ req.fit = "Cover"
    /\ req.format = "png"
    /\ upstream.body.kind = "image" /\ upstream.body.fmt = "Jpeg"
    /\ response.status = 200 /\ response.body = upstream.body

(* C9: no call of resize_image carries a width or a height of 0: a zero    *)
(* dimension is rejected when the query is interpreted.                    *)
C9_ZeroRejected ==
    resized.called =>
        /\ resized.width.some => resized.width.v >= 1
        /\ resized.height.some => resized.height.v >= 1

(* C10: a fit given without both width and height is ignored: the arm is   *)
(* chosen by which dimensions are present (neither keeps the source size,  *)
(* yet the image is decoded and re-encoded), and the crop, bounds and      *)
(* cover arms are taken only when fit, width and height are all set.       *)
C10_FitIgnoredWithoutBothDims ==
    /\ (Decoded /\ resized.out.arm \in {"crop", "bounds", "cover"}) =>
          (resized.fit # "None" /\ BothSet)
    /\ (pc = "done" /\ ~upstream.neterr /\ query.fit # "None") =>
          resized.called
    /\ (Decoded /\ resized.fit # "None" /\ ~BothSet) =>
          /\ resized.out.arm =
                CASE resized.width.some  -> "width_only"
                  [] resized.height.some -> "height_only"
                  [] OTHER               -> "keep"
          /\ resized.out.arm = "keep" =>
                (resized.out.w = SrcW /\ resized.out.h = SrcH)
          /\ resized.out.arm = "width_only" =>
                resized.out.arg_w = resized.width.v
          /\ resized.out.arm = "height_only" =>
                resized.out.arg_h = resized.height.v
          /\ response.status = 200 => response.body.by = "encoder"

C10_Witness ==
    /\ Decoded /\ resized.fit = "Crop"
    /\ resized.width = Some32(2) /\ ~resized.height.some
    /\ resized.out.arm = "width_only"
    /\ SrcW = 3 /\ SrcH = 2
    /\ response.status = 200

====
